---- MODULE Spec2Model ----
(***************************************************************************)
(* Korea Transit MCP server (src/api/index.ts): the tool functions behind  *)
(* executeTool, the feed gateway fetchWithTimeout and the renderer         *)
(* truncateResponse, as one state machine executing a tool call against    *)
(* an upstream snapshot.                                                   *)
(*                                                                         *)
(* Strings.  A JavaScript string is a TLA+ string with one character per   *)
(* UTF-16 code unit, so Len is String.prototype.length.  The module text   *)
(* is ASCII, so every non-ASCII code unit of the source is written as one  *)
(* ASCII stand-in:                                                         *)
(*   - a Hangul syllable is the lowercase letter of its initial consonant  *)
(*     (g n d r m b s o j c k t p h); the station suffix U+C5ED is "y"     *)
(*     and U+AD6C is "k", so the names used as data are                    *)
(*     "gn" (Gangnam), "gny" (Gangnam + suffix), "gnkc" (Gangnam-gu       *)
(*     office), "ss" (Seongsu);                                            *)
(*   - an emoji outside the BMP is two units, "@" and a letter;            *)
(*     U+274C is "!", U+2705 "+", U+203B "*", U+2B06/U+2B07 followed by    *)
(*     U+FE0F are "^|" and "_|"; the backquote is "~".                     *)
(* Latin letters in data are taken from L, T, E, X (both cases), which no  *)
(* Hangul stand-in of a data name uses.                                    *)
(***************************************************************************)
EXTENDS Integers, Sequences, FiniteSets, TLC

\* ---------------------------------------------------------------- bounds

\* length of the long upstream-supplied texts (names, error messages)
BigLen == 30000
\* length of the destination with which the arrival text of station "gn" has
\* exactly 25000 characters (and that of station "gny" 25001)
EdgeLen == 24918

\* ------------------------------------------------------ program constants

CHARACTER_LIMIT == 25000
DEFAULT_TIMEOUT == 10000
pageSize == 1000
StopMaxPages == 5
BikeMaxPages == 3
DefaultLimit == 10
MaxLimit == 20
TruncateMargin == 100
EarlyExitFactor == 3
CombinedRailCount == 5
CombinedStopEnd == 100
CombinedCap == 3
CombinedBikeEnd == 1000

\* --------------------------------------------------- JavaScript values

\* an optional property: undefined, or a value
Undef == <<>>
Some(v) == <<v>>
IsDef(o) == o # Undef
Val(o) == o[1]

Min(a, b) == IF a <= b THEN a ELSE b
Max(a, b) == IF a >= b THEN a ELSE b

\* `${x}` of an optional string
Tpl(o) == IF IsDef(o) THEN Val(o) ELSE "undefined"

\* the indentation JSON.stringify writes at nesting depth n / 2
Spaces == "                "
Indent(n) == SubSeq(Spaces, 1, n)

\* an upstream-supplied text of n characters (n at most 32768)
LongText ==
  LET a == "XXXXXXXX"
      b == a \o a \o a \o a
      c == b \o b \o b \o b
      d == c \o c \o c \o c
      e == d \o d \o d \o d
      f == e \o e \o e \o e
  IN  f \o f \o f \o f
Xs(n) == SubSeq(LongText, 1, n)

CharAt(s, i) == SubSeq(s, i, i)

RECURSIVE Join(_, _)
\* Array.prototype.join: the parts in order, sep between neighbours
Join(parts, sep) ==
  IF Len(parts) = 0 THEN ""
  ELSE IF Len(parts) = 1 THEN parts[1]
  ELSE LET h == Len(parts) \div 2
       IN  Join(SubSeq(parts, 1, h), sep) \o sep \o Join(SubSeq(parts, h + 1, Len(parts)), sep)

\* String.prototype.startsWith
startsWith(s, q) == Len(q) <= Len(s) /\ SubSeq(s, 1, Len(q)) = q

\* String.prototype.includes
includes(s, q) ==
  \E i \in 0..(Len(s) - Len(q)) : SubSeq(s, i + 1, i + Len(q)) = q

UpperLetters == "ABCDEFGHIJKLMNOPQRSTUVWXYZ"
LowerLetters == "abcdefghijklmnopqrstuvwxyz"

LowerTable ==
  [c \in {CharAt(UpperLetters, i) : i \in 1..26} |->
     CharAt(LowerLetters, CHOOSE i \in 1..26 : CharAt(UpperLetters, i) = c)]

LowerOf(c) == IF c \in DOMAIN LowerTable THEN LowerTable[c] ELSE c

\* String.prototype.toLowerCase
toLowerCase(s) == Join([i \in 1..Len(s) |-> LowerOf(CharAt(s, i))], "")

IsSpace(c) == c \in {" ", "\n", "\t"}

\* the longest run of white space at the start of s is removed
trimStart(s) ==
  LET runs == {n \in 0..Len(s) : \A j \in 1..n : IsSpace(CharAt(s, j))}
      n == CHOOSE k \in runs : \A m \in runs : m <= k
  IN  SubSeq(s, n + 1, Len(s))

\* the longest run of white space at the end of s is removed
trimEnd(s) ==
  LET runs == {n \in 0..Len(s) : \A j \in 1..n : IsSpace(CharAt(s, Len(s) + 1 - j))}
      n == CHOOSE k \in runs : \A m \in runs : m <= k
  IN  SubSeq(s, 1, Len(s) - n)

\* String.prototype.trim
trim(s) == trimEnd(trimStart(s))

\* the station suffix U+C5ED
StationSuffix == "y"

\* s.replace(/<suffix>$/u, ""): one suffix at the very end of the input is removed
replaceSuffix(s) ==
  IF s # "" /\ CharAt(s, Len(s)) = StationSuffix THEN SubSeq(s, 1, Len(s) - 1) ELSE s

\* Array.prototype.slice(0, end)
slice(a, end) ==
  LET e == IF end < 0 THEN Max(Len(a) + end, 0) ELSE Min(end, Len(a))
  IN  SubSeq(a, 1, e)

\* UTF-8 percent-encoding of the Hangul stand-ins used in data names
HangulUtf8(c) ==
  CASE c = "g" -> "%EA%B0%95"
    [] c = "n" -> "%EB%82%A8"
    [] c = "y" -> "%EC%97%AD"
    [] c = "k" -> "%EA%B5%AC"
    [] c = "c" -> "%EC%B2%AD"
    [] c = "s" -> "%EC%84%B1"
    [] OTHER   -> c

\* encodeURIComponent: a space is %20, a Hangul syllable its three UTF-8 bytes,
\* an unreserved ASCII character itself
encodeURIComponent(s) ==
  Join([i \in 1..Len(s) |-> IF CharAt(s, i) = " " THEN "%20" ELSE HangulUtf8(CharAt(s, i))], "")

RECURSIVE GroupDigits(_)
\* digits grouped in threes from the right, separated by ","
GroupDigits(n) ==
  IF n < 1000 THEN ToString(n)
  ELSE LET r == n % 1000
           pad == IF r < 10 THEN "00" ELSE IF r < 100 THEN "0" ELSE ""
       IN  GroupDigits(n \div 1000) \o "," \o pad \o ToString(r)

\* Number.prototype.toLocaleString() of a non-negative integer in the runtime's
\* default locale (en-US on the deployment target)
toLocaleString(n) == GroupDigits(n)

\* Math.round((p / r) * 100) for integers p >= 0, r > 0
RoundPct(p, r) == (200 * p + r) \div (2 * r)

\* ---------------------------------------------------------------- JSON

\* a JSON.stringify argument: string, number, array, object (ordered members), undefined
JStr(s) == [t |-> "s", v |-> s]
JNum(n) == [t |-> "n", v |-> n]
JArr(a) == [t |-> "a", v |-> a]
JObj(m) == [t |-> "o", v |-> m]
JUndef == [t |-> "u", v |-> 0]
JOpt(o) == IF IsDef(o) THEN JStr(Val(o)) ELSE JUndef

RECURSIVE Stringify(_, _)
\* JSON.stringify(value, null, 2) at indentation ind; strings hold no character
\* that needs escaping
Stringify(j, ind) ==
  CASE j.t = "s" -> "\"" \o j.v \o "\""
    [] j.t = "n" -> ToString(j.v)
    [] j.t = "u" -> "null"
    [] j.t = "a" ->
         IF Len(j.v) = 0 THEN "[]"
         ELSE "[\n"
              \o Join([i \in 1..Len(j.v) |-> Indent(ind + 2) \o Stringify(j.v[i], ind + 2)], ",\n")
              \o "\n" \o Indent(ind) \o "]"
    [] j.t = "o" ->
         LET ms == SelectSeq(j.v, LAMBDA m : m[2].t # "u")
         IN  IF Len(ms) = 0 THEN "{}"
             ELSE "{\n"
                  \o Join([i \in 1..Len(ms) |->
                            Indent(ind + 2) \o "\"" \o ms[i][1] \o "\": "
                            \o Stringify(ms[i][2], ind + 2)], ",\n")
                  \o "\n" \o Indent(ind) \o "}"

JSON_stringify(j) == Stringify(j, 0)

\* ------------------------------------------------------- lookup tables

SUBWAY_LINE_MAP ==
  [c \in {"1001", "1002", "1003", "1004", "1005", "1006", "1007", "1008", "1009",
          "1077", "1063", "1065"} |->
     CASE c = "1077" -> "sbds"
       [] c = "1063" -> "gojos"
       [] c = "1065" -> "ghcd"
       [] OTHER      -> CharAt(c, 4) \o "hs"]

BUS_TYPE_MAP ==
  [c \in {"1", "2", "3", "4", "5", "6", "7"} |->
     CASE c = "1" -> "ob" [] c = "2" -> "js" [] c = "3" -> "mo" [] c = "4" -> "gy"
       [] c = "5" -> "gh" [] c = "6" -> "gs" [] c = "7" -> "jx"]

\* SUBWAY_LINE_MAP[lineCode] || lineCode, lineCode an optional string
getSubwayLineName(lineCode) ==
  IF IsDef(lineCode) /\ Val(lineCode) \in DOMAIN SUBWAY_LINE_MAP
  THEN Some(SUBWAY_LINE_MAP[Val(lineCode)])
  ELSE lineCode

\* BUS_TYPE_MAP[typeCode] || "gita"
getBusTypeName(typeCode) ==
  IF typeCode \in DOMAIN BUS_TYPE_MAP THEN BUS_TYPE_MAP[typeCode] ELSE "gt"

\* error.message of the errors the runtime raises
AbortMessage == "This operation was aborted"
TransportMessage == "fetch failed"
SyntaxMessage == "Unexpected token < in JSON at position 0"
NullReadMessage(prop) == "Cannot read properties of null (reading '" \o prop \o "')"

\* getErrorMessage(error) of an Error
getErrorMessage(error) == error

\* ---------------------------------------------------------- the renderer

TruncationNotice ==
  "\n\n... (odo " \o toLocaleString(CHARACTER_LIMIT) \o "j jhor jrsnd)"

truncateResponse_KeepLimit(content) ==
  IF Len(content) <= CHARACTER_LIMIT THEN content
  ELSE SubSeq(content, 1, CHARACTER_LIMIT) \o TruncationNotice

truncateResponse(content) ==
  IF Len(content) <= CHARACTER_LIMIT THEN content
  ELSE SubSeq(content, 1, CHARACTER_LIMIT - TruncateMargin) \o TruncationNotice

\* What a tool function settles with.  kind: "return" (the promise resolves with
\* body) or "throw" (it rejects).  form: which return statement produced the body
\* ("json", "markdown", "empty", "failure").  raw: the composed text before the
\* renderer's size bound.  res: the logical result the body was rendered from.
NoOut == [kind |-> "none", form |-> "none", raw |-> "", body |-> "", res |-> <<>>]
Throw(msg) == [kind |-> "throw", form |-> "none", raw |-> "", body |-> msg, res |-> <<>>]

\* return JSON.stringify(obj, null, 2)
ReturnJson_Truncated(obj, res) ==
  LET s == JSON_stringify(obj)
  IN  [kind |-> "return", form |-> "json", raw |-> s, body |-> truncateResponse(s), res |-> res]

ReturnJson(obj, res) ==
  LET s == JSON_stringify(obj)
  IN  [kind |-> "return", form |-> "json", raw |-> s, body |-> s, res |-> res]

\* return truncateResponse(md)
ReturnMarkdown(md, res) ==
  [kind |-> "return", form |-> "markdown", raw |-> md, body |-> truncateResponse(md), res |-> res]

\* return `...` of a fixed empty-state message
ReturnEmpty(text, res) ==
  [kind |-> "return", form |-> "empty", raw |-> text, body |-> text, res |-> res]

\* return `...${getErrorMessage(error)}` in a catch block
ReturnFailure(text) ==
  [kind |-> "return", form |-> "failure", raw |-> text, body |-> text, res |-> <<>>]

\* the value a try block ends with: a return value, or the message of a caught error
Caught(msg) == [caught |-> TRUE, msg |-> msg]
Done(o) == [caught |-> FALSE, out |-> o]

Range(n) == [i \in 1..n |-> i]
HasNull(a) == \E i \in 1..Len(a) : a[i].isNull
ConcatAll(parts) == Join(parts, "")

\* ------------------------------------------------------ upstream feeds

\* a null array element, and the records of the four feeds
NullRec == [isNull |-> TRUE]
SubwayArrival(subwayId, bstatnNm, arvlMsg2, updnLine, btrainNo) ==
  [isNull |-> FALSE, subwayId |-> subwayId, bstatnNm |-> bstatnNm,
   arvlMsg2 |-> arvlMsg2, updnLine |-> updnLine, btrainNo |-> btrainNo]
BusArrival(stNm, rtNm, arrmsg1, arrmsg2, routeType, busRouteAbrv) ==
  [isNull |-> FALSE, stNm |-> stNm, rtNm |-> rtNm, arrmsg1 |-> arrmsg1,
   arrmsg2 |-> arrmsg2, routeType |-> routeType, busRouteAbrv |-> busRouteAbrv]
BusStation(STOPS_NM, STOPS_NO, STOPS_TYPE) ==
  [isNull |-> FALSE, STOPS_NM |-> STOPS_NM, STOPS_NO |-> STOPS_NO, STOPS_TYPE |-> STOPS_TYPE]
BikeStation(stationName, stationId, parkingBikeTotCnt, rackTotCnt) ==
  [isNull |-> FALSE, stationName |-> stationName, stationId |-> stationId,
   parkingBikeTotCnt |-> parkingBikeTotCnt, rackTotCnt |-> rackTotCnt]

\* How the upstream answers one request.  mode: "ok" (headers and a JSON body
\* arrive within the budget), "badjson" (headers arrive, the body is not JSON),
\* "neterr" (the connection fails), "hang" (nothing arrives within the budget),
\* "stall" (the headers arrive within the budget, the body never does).
Answer(mode, data) == [mode |-> mode, data |-> data]
NoData == [isNull |-> TRUE]
FailModes == {"hang", "neterr", "badjson"}

\* the body of the rail feed: an errorMessage header and the arrival list
RailBody(code, message, list) ==
  [isNull |-> FALSE,
   errorMessage |-> IF IsDef(code) THEN Some([code |-> code, message |-> message]) ELSE Undef,
   realtimeArrivalList |-> list]

Train1 == SubwayArrival(Some("1002"), Some("ss"), Some("3b h"), Some("sh"), Some("2154"))
Train2 == SubwayArrival(Some("1077"), Some("gn"), Some("jy dc"), Some("hh"), Undef)
Train3 == SubwayArrival(Some("9999"), Undef, Some("jy cb"), Undef, Undef)
BigTrain == SubwayArrival(Some("1002"), Some(Xs(BigLen)), Some("3b h"), Some("sh"), Undef)
\* a train whose destination has n characters
LongTrain(n) == SubwayArrival(Some("1002"), Some(Xs(n)), Some("3b h"), Some("sh"), Undef)

RailIds == {"ok2", "ok6", "none", "err", "errbig", "nullel", "null", "big", "edge",
            "hang", "stall", "neterr", "badjson"}

\* the rail feed's answer in snapshot id, whatever range the URL asks for
RailFeed(id) ==
  CASE id = "ok2"    -> Answer("ok", RailBody(Some("INFO-000"), Some("js cr"), Some(<<Train1, Train2>>)))
    [] id = "ok6"    -> Answer("ok", RailBody(Some("INFO-000"), Some("js cr"),
                                 Some(<<Train1, Train2, Train3, Train1, Train2, Train3>>)))
    [] id = "none"   -> Answer("ok", RailBody(Undef, Undef, Undef))
    [] id = "err"    -> Answer("ok", RailBody(Some("ERROR-300"), Some("pss gh nr"), Undef))
    [] id = "errbig" -> Answer("ok", RailBody(Some("ERROR-500"), Some(Xs(BigLen)), Undef))
    [] id = "nullel" -> Answer("ok", RailBody(Some("INFO-000"), Some("js cr"), Some(<<Train1, NullRec>>)))
    [] id = "null"   -> Answer("ok", NoData)
    [] id = "big"    -> Answer("ok", RailBody(Some("INFO-000"), Some("js cr"), Some(<<BigTrain>>)))
    [] id = "edge"   -> Answer("ok", RailBody(Some("INFO-000"), Some("js cr"), Some(<<LongTrain(EdgeLen)>>)))
    [] OTHER         -> Answer(id, NoData)

\* the request of one fetchWithTimeout call
Url(feed, startIdx, endIdx, key) ==
  [feed |-> feed, startIdx |-> startIdx, endIdx |-> endIdx, key |-> key]

\* --------------------------------------------------- argument handling

\* args.station_name.replace(/<suffix>$/u, "").trim()
normalizeStation(s) == trim(replaceSuffix(s))

\* Math.min(args.limit || 10, 20), args.limit an optional integer
effectiveLimit(l) ==
  Min(IF IsDef(l) /\ Val(l) # 0 THEN Val(l) ELSE DefaultLimit, MaxLimit)

\* args.response_format || "markdown"
effectiveFormat(f) == IF IsDef(f) /\ Val(f) # "" THEN Val(f) ELSE "markdown"

\* ------------------------------------------------ transitGetSubwayArrival

SubwayArrivalJson(stationName, arrivals) ==
  JObj(<< <<"station", JStr(stationName)>>,
          <<"count", JNum(Len(arrivals))>>,
          <<"arrivals", JArr([i \in 1..Len(arrivals) |->
              JObj(<< <<"line", JOpt(getSubwayLineName(arrivals[i].subwayId))>>,
                      <<"destination", JOpt(arrivals[i].bstatnNm)>>,
                      <<"message", JOpt(arrivals[i].arvlMsg2)>>,
                      <<"direction", JOpt(arrivals[i].updnLine)>>,
                      <<"trainNumber", JOpt(arrivals[i].btrainNo)>> >>)])>> >>)

SubwayArrivalMarkdown(stationName, arrivals) ==
  "## @M " \o stationName \o "y ssg dcjb\n\n"
  \o "> c " \o ToString(Len(arrivals)) \o "go oc jb\n\n"
  \o ConcatAll([i \in 1..Len(arrivals) |->
       "### " \o ToString(i) \o ". " \o Tpl(getSubwayLineName(arrivals[i].subwayId))
       \o " - " \o Tpl(arrivals[i].bstatnNm) \o "h\n"
       \o "- **dc**: " \o Tpl(arrivals[i].arvlMsg2) \o "\n"
       \o "- **bh**: " \o (IF arrivals[i].updnLine = Some("sh") THEN "^| sh" ELSE "_| hh")
       \o "\n\n"])

\* the try block of transitGetSubwayArrival from the parsed body on
SubwayArrivalTry(stationName, format, data) ==
  IF data.isNull THEN Caught(NullReadMessage("errorMessage"))
  ELSE IF /\ IsDef(data.errorMessage)
          /\ IsDef(Val(data.errorMessage).code)
          /\ Val(Val(data.errorMessage).code) \notin {"", "INFO-000"}
  THEN Caught("API or: " \o Tpl(Val(data.errorMessage).message))
  ELSE
    LET arrivals == IF IsDef(data.realtimeArrivalList) THEN Val(data.realtimeArrivalList) ELSE <<>>
        res == [count |-> Len(arrivals), items |-> arrivals]
    IN  IF format = "json"
        THEN IF HasNull(arrivals) THEN Caught(NullReadMessage("subwayId"))
             ELSE Done(ReturnJson(SubwayArrivalJson(stationName, arrivals), res))
        ELSE IF Len(arrivals) = 0
        THEN Done(ReturnEmpty("## @M " \o stationName \o "y dcjb\n\nhj dc oj ocg osnd.", res))
        ELSE IF HasNull(arrivals) THEN Caught(NullReadMessage("subwayId"))
        ELSE Done(ReturnMarkdown(SubwayArrivalMarkdown(stationName, arrivals), res))

\* the catch block of transitGetSubwayArrival
SubwayArrivalCatch(msg) == ReturnFailure("! jhc jb jh sp: " \o getErrorMessage(msg))

\* ------------------------------------------------- transitGetSubwayStatus

SubwayStatusBody(line, format) ==
  LET title == IF IsDef(line) /\ Val(line) # "" THEN Val(line) \o "hs" ELSE "jc hs"
  IN  IF format = "json"
      THEN ReturnJson(JObj(<< <<"filter", JStr(title)>>,
                              <<"status", JStr("js oh j")>>,
                              <<"message", JStr("ssg ohjo jbn sogtgs gjsho hohjso.")>> >>),
                      <<>>)
      ELSE ReturnEmpty("## @M jhc ohst (" \o title
                       \o ")\n\n+ js oh j\n\n* ssg ohjo jbn sogtgs gjsho hohjso.", <<>>)

\* --------------------------------------------------- transitGetBusArrival

\* the body of the bus-arrival feed: msgHeader and msgBody.itemList
BusBody(headerCd, headerMsg, itemList) ==
  [isNull |-> FALSE,
   msgHeader |-> IF IsDef(headerCd) THEN Some([headerCd |-> headerCd, headerMsg |-> headerMsg]) ELSE Undef,
   itemList |-> itemList]

Bus1 == BusArrival(Some("gny"), Some("146"), Some("3b h dc"), Some("12b h dc"), Some("6"), Some("146"))
Bus2 == BusArrival(Some("gny"), Some("9404"), Some("g dc"), Some("ohjr"), Undef, Undef)
Bus3 == BusArrival(Undef, Some("M4403"), Some("cbdg"), Some("cbdg"), Some("9"), Undef)

BusIds == {"ok2", "ok3", "ok0", "err", "errnomsg", "nullel", "null", "hang", "stall", "neterr",
           "badjson"}

BusFeed(id) ==
  CASE id = "ok2"      -> Answer("ok", BusBody(Some("0"), Some("js cr"), Some(<<Bus1, Bus2>>)))
    [] id = "ok3"      -> Answer("ok", BusBody(Some("0"), Some("js cr"), Some(<<Bus3, Bus1, Bus2>>)))
    [] id = "ok0"      -> Answer("ok", BusBody(Some("0"), Some("js cr"), Undef))
    [] id = "err"      -> Answer("ok", BusBody(Some("4"), Some("ggg osnd"), Undef))
    [] id = "errnomsg" -> Answer("ok", BusBody(Undef, Undef, Undef))
    [] id = "nullel"   -> Answer("ok", BusBody(Some("0"), Some("js cr"), Some(<<Bus1, NullRec>>)))
    [] id = "null"     -> Answer("ok", NoData)
    [] OTHER           -> Answer(id, NoData)

\* arrivals[0]?.stNm || "(unknown)"
FirstStationName(arrivals) ==
  IF Len(arrivals) > 0 /\ ~arrivals[1].isNull /\ IsDef(arrivals[1].stNm) /\ Val(arrivals[1].stNm) # ""
  THEN Val(arrivals[1].stNm) ELSE "o s oo"

\* getBusTypeName(bus.routeType || "1")
RouteTypeName(bus) ==
  getBusTypeName(IF IsDef(bus.routeType) /\ Val(bus.routeType) # "" THEN Val(bus.routeType) ELSE "1")

BusArrivalJson(arsId, arrivals, shown) ==
  JObj(<< <<"stationName", JStr(FirstStationName(arrivals))>>,
          <<"arsId", JStr(arsId)>>,
          <<"count", JNum(Len(arrivals))>>,
          <<"arrivals", JArr([i \in 1..Len(shown) |->
              JObj(<< <<"routeName", JOpt(shown[i].rtNm)>>,
                      <<"routeAbbr", JOpt(shown[i].busRouteAbrv)>>,
                      <<"arrival1", JOpt(shown[i].arrmsg1)>>,
                      <<"arrival2", JOpt(shown[i].arrmsg2)>>,
                      <<"routeType", JStr(RouteTypeName(shown[i]))>> >>)])>> >>)

BusArrivalMarkdown(arsId, arrivals, shown) ==
  "## @B " \o FirstStationName(arrivals) \o " bs dcjb\n\n"
  \o "> jrj bh: " \o arsId \o " | " \o ToString(Len(arrivals)) \o "g ns\n\n"
  \o ConcatAll([i \in 1..Len(shown) |->
       "### " \o ToString(i) \o ". " \o Tpl(shown[i].rtNm) \o " (" \o RouteTypeName(shown[i]) \o ")\n"
       \o "- **cbj bs**: " \o Tpl(shown[i].arrmsg1) \o "\n"
       \o "- **dbj bs**: " \o Tpl(shown[i].arrmsg2) \o "\n\n"])

\* the try block of transitGetBusArrival from the parsed body on
BusArrivalTry(arsId, limit, format, data) ==
  IF data.isNull THEN Caught(NullReadMessage("msgHeader"))
  ELSE IF ~(IsDef(data.msgHeader) /\ Val(data.msgHeader).headerCd = Some("0"))
  THEN Caught(IF IsDef(data.msgHeader) /\ IsDef(Val(data.msgHeader).headerMsg)
                 /\ Val(Val(data.msgHeader).headerMsg) # ""
              THEN Val(Val(data.msgHeader).headerMsg) ELSE "API or")
  ELSE
    LET arrivals == IF IsDef(data.itemList) THEN Val(data.itemList) ELSE <<>>
        shown == slice(arrivals, limit)
        res == [count |-> Len(arrivals), items |-> shown]
    IN  IF format = "json"
        THEN IF HasNull(shown) THEN Caught(NullReadMessage("rtNm"))
             ELSE Done(ReturnJson(BusArrivalJson(arsId, arrivals, shown), res))
        ELSE IF Len(arrivals) = 0
        THEN Done(ReturnEmpty("## @B bs dcjb (jrj: " \o arsId \o ")\n\nhj dc oj bsg osnd.", res))
        ELSE IF HasNull(shown) THEN Caught(NullReadMessage("routeType"))
        ELSE Done(ReturnMarkdown(BusArrivalMarkdown(arsId, arrivals, shown), res))

\* the catch block of transitGetBusArrival
BusArrivalCatch(msg) ==
  ReturnFailure("! bs dcjb jh sp: " \o getErrorMessage(msg) \o "\n\n@T jrj bhg obrj hoh jso.")

\* ------------------------------------------------------ directory feeds

\* the body of a directory feed: the rows of <service>.row, or a RESULT header
DirBody(row, code, message) ==
  [isNull |-> FALSE, row |-> row,
   RESULT |-> IF IsDef(code) THEN Some([CODE |-> code, MESSAGE |-> message]) ELSE Undef]

\* the feed's answer to a range past the end of the dataset
NoRowsBody == DirBody(Undef, Some("INFO-200"), Some("hdhn dotg osnd."))
\* the feed's answer when the service fails or the key is refused
ErrorBody == DirBody(Undef, Some("ERROR-500"), Some("sb or"))

\* number of records of a directory dataset
DirCount(ds) ==
  CASE ds = "small"   -> 6
    [] ds = "nullrec" -> 3
    [] ds = "full"    -> pageSize
    [] ds = "mid"     -> 2 * pageSize + 500
    [] ds = "dense"   -> 2 * pageSize + 500
    [] ds = "sparse"  -> (StopMaxPages + 1) * pageSize

StopId(i) == Some(ToString(10000 + i))

\* record i (from 1) of the stop directory
StopRow(ds, i) ==
  CASE ds = "small" ->
         (CASE i = 1 -> BusStation(Some("gny"), StopId(1), Undef)
            [] i = 2 -> BusStation(Some("gnkc"), StopId(2), Some("js"))
            [] i = 3 -> BusStation(Some("gn"), StopId(3), Undef)
            [] i = 4 -> BusStation(Undef, StopId(4), Undef)
            [] i = 5 -> BusStation(Some("LT gn"), StopId(5), Undef)
            [] OTHER -> BusStation(Some("ss"), StopId(i), Undef))
    [] ds = "nullrec" ->
         IF i = 2 THEN NullRec ELSE BusStation(Some("gny"), StopId(i), Undef)
    [] ds = "full" ->
         BusStation(Some(IF i % 400 = 0 THEN "gny" ELSE "ss"), StopId(i), Undef)
    [] ds = "mid" ->
         BusStation(Some(IF i % 50 # 0 THEN "ss"
                         ELSE CASE (i \div 50) % 3 = 0 -> "gnkc"
                                [] (i \div 50) % 3 = 1 -> "Xgn"
                                [] OTHER               -> "gny"), StopId(i), Undef)
    [] ds = "dense" ->
         BusStation(Some(IF i % 16 # 0 THEN "ss"
                         ELSE CASE (i \div 16) % 4 = 0 -> "gnkc"
                                [] (i \div 16) % 4 = 1 -> "Xgn"
                                [] (i \div 16) % 4 = 2 -> "gn"
                                [] OTHER               -> "gny"), StopId(i), Undef)
    [] ds = "sparse" ->
         BusStation(Some(IF i % pageSize # 500 THEN "ss"
                         ELSE IF (i \div pageSize) % 2 = 0 THEN "gnkc" ELSE "gny"),
                    StopId(i), Undef)

\* record i (from 1) of the bike directory
BikeRow(ds, i) ==
  CASE ds = "small" ->
         (CASE i = 1 -> BikeStation(Some("101. gny 1bcg"), Some("ST-1"), 5, 10)
            [] i = 2 -> BikeStation(Some("LT gn"), Some("ST-2"), 0, 0)
            [] i = 3 -> BikeStation(Undef, Some("ST-3"), 1, 3)
            [] i = 4 -> BikeStation(Some("gn LTE"), Some("ST-4"), 1, 8)
            [] i = 5 -> BikeStation(Some("gnkc"), Some("ST-5"), 2, 3)
            [] OTHER -> BikeStation(Some("ss"), Some("ST-6"), 0, 5))
    [] ds = "nullrec" ->
         IF i = 2 THEN NullRec ELSE BikeStation(Some("gny"), Some("ST-1"), 1, 2)
    [] ds = "dense" ->
         BikeStation(Some(IF i % 10 # 0 THEN "ss" ELSE "GN gn"), Some("ST-" \o ToString(i)), i % 7, 6)
    [] OTHER ->
         BikeStation(Some(IF i % pageSize # 500 THEN "ss" ELSE "gny"), Some("ST-" \o ToString(i)), 3, 9)

\* a directory snapshot: the dataset, and the page (0: none) whose request fails
\* with failMode: a gateway failure, "errbody" or "nullbody"
DirSnap(ds, failPage, failMode) == [ds |-> ds, failPage |-> failPage, failMode |-> failMode]

\* the directory's answer to the range of url in snapshot b
DirFeed(b, url) ==
  LET n == DirCount(b.ds)
      last == Min(url.endIdx, n)
  IN  IF b.failPage # 0 /\ url.startIdx = (b.failPage - 1) * pageSize + 1
      THEN CASE b.failMode = "errbody"  -> Answer("ok", ErrorBody)
             [] b.failMode = "nullbody" -> Answer("ok", NoData)
             [] OTHER                   -> Answer(b.failMode, NoData)
      ELSE IF url.startIdx > n THEN Answer("ok", NoRowsBody)
      ELSE Answer("ok", DirBody(
             Some([i \in 1..(last - url.startIdx + 1) |->
                    IF url.feed = "stops" THEN StopRow(b.ds, url.startIdx + i - 1)
                    ELSE BikeRow(b.ds, url.startIdx + i - 1)]),
             Some("INFO-000"), Some("js cr")))

\* data.<service>?.row || []
RowsOf(data) == IF IsDef(data.row) THEN Val(data.row) ELSE <<>>

\* ------------------------------------------------ transitSearchBusStation

\* s.STOPS_NM?.includes(query) || s.STOPS_NO === query
StopMatches(s, query) ==
  \/ IsDef(s.STOPS_NM) /\ includes(Val(s.STOPS_NM), query)
  \/ s.STOPS_NO = Some(query)

\* a.STOPS_NM || ""
StopName(s) == IF IsDef(s.STOPS_NM) THEN Val(s.STOPS_NM) ELSE ""

compareStops_LengthOnly(a, b, query) == Len(StopName(a)) - Len(StopName(b))

\* the comparator handed to results.sort
compareStops(a, b, query) ==
  LET aStarts == startsWith(StopName(a), query)
      bStarts == startsWith(StopName(b), query)
  IN  IF aStarts /\ ~bStarts THEN -1
      ELSE IF ~aStarts /\ bStarts THEN 1
      ELSE Len(StopName(a)) - Len(StopName(b))

\* Array.prototype.sort with the comparator: a stable sort. The comparator orders
\* by the pair (does not start with the query, length), a consistent ordering, so
\* the sort places each element after exactly those that compare lower, or
\* compare equal and come earlier in the array.
sortStops(results, query) ==
  LET n == Len(results)
      before(j, i) == LET c == compareStops(results[j], results[i], query)
                      IN  c < 0 \/ (c = 0 /\ j < i)
      rank == [i \in 1..n |-> Cardinality({j \in 1..n : before(j, i)}) + 1]
      at == [k \in 1..n |-> CHOOSE i \in 1..n : rank[i] = k]
  IN  [k \in 1..n |-> results[at[k]]]

SearchBusStationJson(query, stations) ==
  JObj(<< <<"query", JStr(query)>>,
          <<"count", JNum(Len(stations))>>,
          <<"stations", JArr([i \in 1..Len(stations) |->
              JObj(<< <<"name", JOpt(stations[i].STOPS_NM)>>,
                      <<"arsId", JOpt(stations[i].STOPS_NO)>>,
                      <<"type", JStr(IF IsDef(stations[i].STOPS_TYPE) /\ Val(stations[i].STOPS_TYPE) # ""
                                     THEN Val(stations[i].STOPS_TYPE) ELSE "ob")>> >>)])>> >>)

SearchBusStationMarkdown(query, stations) ==
  "## @Q bs jrj gs: \"" \o query \o "\"\n\n"
  \o "> " \o ToString(Len(stations)) \o "g jrj bg\n\n"
  \o ConcatAll([i \in 1..Len(stations) |->
       "### " \o ToString(i) \o ". " \o Tpl(stations[i].STOPS_NM) \o "\n"
       \o "- **jrj bh**: ~" \o Tpl(stations[i].STOPS_NO) \o "~\n\n"])
  \o "---\n> @T **Tip**: dcjb jh s jrj bh(arsId)r sohso.\n"

\* one pass of the loop body from the parsed body on: the rows of the page and
\* the matches it adds, or the error thrown
SearchBusStationPage(query, data) ==
  IF data.isNull THEN Caught(NullReadMessage("busStopLocationXyInfo"))
  ELSE LET rows == RowsOf(data)
       IN  IF HasNull(rows) THEN Caught(NullReadMessage("STOPS_NM"))
           ELSE [caught |-> FALSE, rows |-> rows,
                 matched |-> SelectSeq(rows, LAMBDA s : StopMatches(s, query))]

\* the statements after the loop
SearchBusStationRender(query, limit, format, results) ==
  LET sortedResults == sortStops(results, query)
      stations == slice(sortedResults, limit)
      res == [count |-> Len(stations), items |-> stations, sorted |-> sortedResults]
  IN  IF format = "json" THEN ReturnJson(SearchBusStationJson(query, stations), res)
      ELSE IF Len(stations) = 0
      THEN ReturnEmpty("## @Q bs jrj gs: \"" \o query \o "\"\n\ngs ggg osnd.", res)
      ELSE ReturnMarkdown(SearchBusStationMarkdown(query, stations), res)

\* the catch block of transitSearchBusStation
SearchBusStationCatch(msg) == ReturnFailure("! jrj gs sp: " \o getErrorMessage(msg))

\* -------------------------------------------------- transitGetBikeStation

\* s.stationName?.toLowerCase().includes(query.toLowerCase())
BikeMatches(s, query) ==
  IsDef(s.stationName) /\ includes(toLowerCase(Val(s.stationName)), toLowerCase(query))

\* availRate, and the marker chosen from it
AvailRate(s) ==
  IF s.rackTotCnt > 0 THEN RoundPct(s.parkingBikeTotCnt, s.rackTotCnt) ELSE 0
AvailEmoji(s) ==
  IF AvailRate(s) >= 50 THEN "@G" ELSE IF AvailRate(s) >= 20 THEN "@Y" ELSE "@R"

BikeStationJson(query, stations) ==
  JObj(<< <<"query", JStr(query)>>,
          <<"count", JNum(Len(stations))>>,
          <<"stations", JArr([i \in 1..Len(stations) |->
              JObj(<< <<"name", JOpt(stations[i].stationName)>>,
                      <<"id", JOpt(stations[i].stationId)>>,
                      <<"available", JNum(stations[i].parkingBikeTotCnt)>>,
                      <<"rackTotal", JNum(stations[i].rackTotCnt)>> >>)])>> >>)

BikeStationMarkdown(query, stations) ==
  "## @V dro dos gs: \"" \o query \o "\"\n\n"
  \o "> " \o ToString(Len(stations)) \o "g dos bg\n\n"
  \o ConcatAll([i \in 1..Len(stations) |->
       "### " \o ToString(i) \o ". " \o Tpl(stations[i].stationName) \o "\n"
       \o "- **do gn**: " \o AvailEmoji(stations[i]) \o " "
       \o ToString(stations[i].parkingBikeTotCnt) \o "d / "
       \o ToString(stations[i].rackTotCnt) \o "d (" \o ToString(AvailRate(stations[i])) \o "%)\n\n"])

BikeStationPage(query, data) ==
  IF data.isNull THEN Caught(NullReadMessage("rentBikeStatus"))
  ELSE LET rows == RowsOf(data)
       IN  IF HasNull(rows) THEN Caught(NullReadMessage("stationName"))
           ELSE [caught |-> FALSE, rows |-> rows,
                 matched |-> SelectSeq(rows, LAMBDA s : BikeMatches(s, query))]

BikeStationRender(query, limit, format, results) ==
  LET stations == slice(results, limit)
      res == [count |-> Len(stations), items |-> stations]
  IN  IF format = "json" THEN ReturnJson(BikeStationJson(query, stations), res)
      ELSE IF Len(stations) = 0
      THEN ReturnEmpty("## @V dro dos gs: \"" \o query \o "\"\n\ngs ggg osnd.", res)
      ELSE ReturnMarkdown(BikeStationMarkdown(query, stations), res)

\* the catch block of transitGetBikeStation
BikeStationCatch(msg) == ReturnFailure("! dro dos gs sp: " \o getErrorMessage(msg))

scanBreaks_NoFactor(results, rows, limit) ==
  Len(results) >= limit \/ Len(rows) < pageSize

\* the loop's exit test after a page
scanBreaks(results, rows, limit) ==
  Len(results) >= limit * EarlyExitFactor \/ Len(rows) < pageSize

\* ------------------------------------------------- transitGetCombinedInfo

\* the three try blocks from the parsed body on: the records pushed, or the
\* error the empty catch swallows
CombinedSubwayTry(data) ==
  IF data.isNull THEN Caught(NullReadMessage("realtimeArrivalList"))
  ELSE [caught |-> FALSE,
        pushed |-> IF IsDef(data.realtimeArrivalList) THEN Val(data.realtimeArrivalList) ELSE <<>>]

CombinedBusTry(location, data) ==
  IF data.isNull THEN Caught(NullReadMessage("busStopLocationXyInfo"))
  ELSE LET rows == RowsOf(data)
       IN  IF HasNull(rows) THEN Caught(NullReadMessage("STOPS_NM"))
           ELSE [caught |-> FALSE,
                 pushed |-> slice(SelectSeq(rows, LAMBDA s :
                                    IsDef(s.STOPS_NM) /\ includes(Val(s.STOPS_NM), location)),
                                  CombinedCap)]

CombinedBikeTry(location, data) ==
  IF data.isNull THEN Caught(NullReadMessage("rentBikeStatus"))
  ELSE LET rows == RowsOf(data)
       IN  IF HasNull(rows) THEN Caught(NullReadMessage("stationName"))
           ELSE [caught |-> FALSE,
                 pushed |-> slice(SelectSeq(rows, LAMBDA s : BikeMatches(s, location)),
                                  CombinedCap)]

CombinedJson(rawLocation, subwayData, busStations, bikeStations) ==
  LET shown == slice(subwayData, CombinedRailCount)
  IN  JObj(<<
        <<"location", JStr(rawLocation)>>,
        <<"subway", JObj(<< <<"count", JNum(Len(subwayData))>>,
            <<"arrivals", JArr([i \in 1..Len(shown) |->
                JObj(<< <<"line", JOpt(getSubwayLineName(shown[i].subwayId))>>,
                        <<"destination", JOpt(shown[i].bstatnNm)>>,
                        <<"message", JOpt(shown[i].arvlMsg2)>> >>)])>> >>)>>,
        <<"bus", JObj(<< <<"count", JNum(Len(busStations))>>,
            <<"stations", JArr([i \in 1..Len(busStations) |->
                JObj(<< <<"name", JOpt(busStations[i].STOPS_NM)>>,
                        <<"arsId", JOpt(busStations[i].STOPS_NO)>> >>)])>> >>)>>,
        <<"bike", JObj(<< <<"count", JNum(Len(bikeStations))>>,
            <<"stations", JArr([i \in 1..Len(bikeStations) |->
                JObj(<< <<"name", JOpt(bikeStations[i].stationName)>>,
                        <<"available", JNum(bikeStations[i].parkingBikeTotCnt)>>,
                        <<"total", JNum(bikeStations[i].rackTotCnt)>> >>)])>> >>)>> >>)

\* the fixed empty-state line of each section
SubwayEmptyLine == "jb jhcy jbg osnd.\n\n"
BusEmptyLine == "jb bs jrj jbg osnd.\n\n"
BikeEmptyLine == "jb dro dos jbg osnd.\n"

CombinedSubwaySection(subwayData) ==
  "## @M jhc dcjb\n\n"
  \o (IF Len(subwayData) = 0 THEN SubwayEmptyLine
      ELSE LET shown == slice(subwayData, CombinedRailCount)
           IN  ConcatAll([i \in 1..Len(shown) |->
                 "- **" \o Tpl(getSubwayLineName(shown[i].subwayId)) \o "** "
                 \o Tpl(shown[i].bstatnNm) \o "h: " \o Tpl(shown[i].arvlMsg2) \o "\n"]) \o "\n")

CombinedBusSection(busStations) ==
  "## @B bs jrj\n\n"
  \o (IF Len(busStations) = 0 THEN BusEmptyLine
      ELSE ConcatAll([i \in 1..Len(busStations) |->
             "- **" \o Tpl(busStations[i].STOPS_NM) \o "** ("
             \o Tpl(busStations[i].STOPS_NO) \o ")\n"]) \o "\n")

CombinedBikeSection(bikeStations) ==
  "## @V dro dos\n\n"
  \o (IF Len(bikeStations) = 0 THEN BikeEmptyLine
      ELSE ConcatAll([i \in 1..Len(bikeStations) |->
             "- **" \o Tpl(bikeStations[i].stationName) \o "**: " \o AvailEmoji(bikeStations[i])
             \o " " \o ToString(bikeStations[i].parkingBikeTotCnt) \o "d oogn\n"]))

CombinedMarkdown(rawLocation, subwayData, busStations, bikeStations) ==
  "# @P " \o rawLocation \o " jb gtjb\n\n"
  \o CombinedSubwaySection(subwayData)
  \o CombinedBusSection(busStations)
  \o CombinedBikeSection(bikeStations)

\* the statements after the three try blocks; nothing catches what they throw
CombinedRender(rawLocation, format, subwayData, busStations, bikeStations) ==
  LET res == [subway |-> [count |-> Len(subwayData), items |-> slice(subwayData, CombinedRailCount)],
              bus    |-> [count |-> Len(busStations), items |-> busStations],
              bike   |-> [count |-> Len(bikeStations), items |-> bikeStations]]
  IN  IF HasNull(slice(subwayData, CombinedRailCount)) THEN Throw(NullReadMessage("subwayId"))
      ELSE IF format = "json"
      THEN ReturnJson(CombinedJson(rawLocation, subwayData, busStations, bikeStations), res)
      ELSE ReturnMarkdown(CombinedMarkdown(rawLocation, subwayData, busStations, bikeStations), res)

\* ------------------------------------------------------------- inputs

Limits == {Undef, Some(-1), Some(0), Some(1), Some(25)}
Formats == {Undef, Some("json")}

SubwayArrivalArgs ==
  [station_name : {"gn", "gny", "gny "}, limit : Limits, response_format : Formats]
SubwayStatusArgs == [line : {Undef, Some("2")}, response_format : Formats]
BusArrivalArgs == [ars_id : {"16165"}, limit : Limits, response_format : Formats]
SearchBusStationArgs == [query : {"gn", " 10004", "lt"}, limit : Limits, response_format : Formats]
BikeStationArgs == [query : {"gn", "lt"}, limit : Limits, response_format : Formats]
CombinedInfoArgs == [location : {"gn", "gny"}, response_format : Formats]

StopSnaps ==
  {DirSnap(ds, 0, "none") : ds \in {"small", "nullrec", "full", "mid", "dense", "sparse"}}
  \cup {DirSnap("sparse", 3, m) : m \in FailModes \cup {"errbody", "stall"}}
  \cup {DirSnap("small", 1, m) : m \in FailModes \cup {"errbody", "nullbody", "stall"}}

BikeSnaps ==
  {DirSnap(ds, 0, "none") : ds \in {"small", "nullrec", "dense", "sparse"}}
  \cup {DirSnap("sparse", 2, m) : m \in FailModes \cup {"errbody"}}
  \cup {DirSnap("small", 1, m) : m \in FailModes \cup {"errbody", "nullbody", "stall"}}

\* the snapshots of feed a call of tool t is run against
Snapshots(t, feed) ==
  IF t = "transit_get_combined_info"
  THEN CASE feed = "rail"  -> {"ok6", "nullel", "null", "hang", "stall", "neterr", "badjson"}
         [] feed = "stops" -> {DirSnap("small", 0, "none"), DirSnap("nullrec", 0, "none")}
                              \cup {DirSnap("small", 1, m) : m \in FailModes}
         [] feed = "bikes" -> {DirSnap("small", 0, "none"), DirSnap("nullrec", 0, "none")}
                              \cup {DirSnap("small", 1, m) : m \in FailModes}
  ELSE CASE feed = "rail"   -> RailIds
         [] feed = "busArr" -> BusIds
         [] feed = "stops"  -> StopSnaps
         [] feed = "bikes"  -> BikeSnaps

\* --------------------------------------------------------------- state

VARIABLES
  pc,            \* "idle", "fetch" (awaiting fetch), "json" (awaiting response.json()), "done"
  tool,          \* the name executeTool dispatches on
  args,          \* the arguments of the call
  query,         \* stationName / arsId / query / location after argument handling
  limit,         \* the effective limit
  format,        \* the effective response format
  page,          \* the loop variable of the directory scans
  results,       \* the matches accumulated by a directory scan
  subwayData,    \* the three buffers of the combined query
  busStations,
  bikeStations,
  upstream,      \* the snapshot of each feed, fixed when the feed is first read
  net,           \* the request in flight: "none", "inflight", "aborted"
  timers,        \* the cancellation timer of each fetchWithTimeout call: "armed", "fired", "cleared"
  fetchLog,      \* the request of each fetchWithTimeout call, in order
  failed,        \* <<feed, kind>> of each lookup that failed in this call: kind is
                 \* "timeout", "transport", "payload" (a body that is not JSON, not an
                 \* object, or error-coded) or "record" (a null array element)
  out,           \* what the tool function settled with
  phase,         \* "single": one request; "first", "between", "repeat": a session of three
  reference      \* the first request of a session and its response

vars == <<pc, tool, args, query, limit, format, page, results, subwayData, busStations,
          bikeStations, upstream, net, timers, fetchLog, failed, out, phase, reference>>

SUBWAY_ARRIVAL == "transit_get_subway_arrival"
SUBWAY_STATUS == "transit_get_subway_status"
BUS_ARRIVAL == "transit_get_bus_arrival"
SEARCH_BUS_STATION == "transit_search_bus_station"
BIKE_STATION == "transit_get_bike_station"
COMBINED_INFO == "transit_get_combined_info"

\* the reference of a process that has answered no request yet
NoReference == [tool |-> "none", args |-> <<>>, out |-> NoOut]

Init ==
  /\ pc = "idle"
  /\ tool = "none"
  /\ args = <<>>
  /\ query = ""
  /\ limit = DefaultLimit
  /\ format = "markdown"
  /\ page = 0
  /\ results = <<>>
  /\ subwayData = <<>>
  /\ busStations = <<>>
  /\ bikeStations = <<>>
  /\ upstream = [f \in {"rail", "busArr", "stops", "bikes"} |-> Undef]
  /\ net = "none"
  /\ timers = <<>>
  /\ fetchLog = <<>>
  /\ failed = {}
  /\ out = NoOut
  /\ phase = "single"
  /\ reference = NoReference

\* a process that will be sent three requests in a row: any one, any other, and
\* the first one again
InitSession ==
  /\ pc = "idle"
  /\ tool = "none"
  /\ args = <<>>
  /\ query = ""
  /\ limit = DefaultLimit
  /\ format = "markdown"
  /\ page = 0
  /\ results = <<>>
  /\ subwayData = <<>>
  /\ busStations = <<>>
  /\ bikeStations = <<>>
  /\ upstream = [f \in {"rail", "busArr", "stops", "bikes"} |-> Undef]
  /\ net = "none"
  /\ timers = <<>>
  /\ fetchLog = <<>>
  /\ failed = {}
  /\ out = NoOut
  /\ phase = "first"
  /\ reference = NoReference

\* the requests and snapshots a session is run with
SessionArgs(t) ==
  CASE t = SUBWAY_ARRIVAL     -> [station_name : {"gny"}, limit : {Some(1)}, response_format : {Undef}]
    [] t = SUBWAY_STATUS      -> [line : {Some("2")}, response_format : {Some("json")}]
    [] t = BUS_ARRIVAL        -> [ars_id : {"16165"}, limit : {Undef}, response_format : {Undef}]
    [] t = SEARCH_BUS_STATION -> [query : {"gn"}, limit : {Undef, Some(1)}, response_format : {Some("json")}]
    [] t = BIKE_STATION       -> [query : {"gn"}, limit : {Undef}, response_format : {Undef}]
    [] t = COMBINED_INFO      -> [location : {"gn"}, response_format : {Some("json")}]

SessionSnapshots(feed) ==
  CASE feed = "rail"   -> {"ok2", "hang"}
    [] feed = "busArr" -> {"ok2", "badjson"}
    [] feed = "stops"  -> {DirSnap("mid", 0, "none"), DirSnap("small", 1, "neterr")}
    [] feed = "bikes"  -> {DirSnap("small", 0, "none"), DirSnap("small", 1, "hang")}

\* the requests that arrive: any in a single call and in the first two requests
\* of a session, the first request again in the third
Admitted(t, a) ==
  CASE phase = "single" -> TRUE
    [] phase = "repeat" -> t = reference.tool /\ a = reference.args
    [] OTHER            -> a \in SessionArgs(t)

\* ------------------------------------------------------- the feed gateway

CurUrl == fetchLog[Len(fetchLog)]

\* the upstream's answer to the request in flight
CurAnswer ==
  LET b == Val(upstream[CurUrl.feed])
  IN  CASE CurUrl.feed = "rail"   -> RailFeed(b)
        [] CurUrl.feed = "busArr" -> BusFeed(b)
        [] OTHER                  -> DirFeed(b, CurUrl)

ClearTimer_Leak(tm) == tm
\* clearTimeout(timeoutId) in the finally block of the current call
ClearTimer(tm) == [tm EXCEPT ![Len(tm)] = "cleared"]

\* fetchWithTimeout(url) up to its await: the timer is armed and the request sent
StartFetch(t, url, tm) ==
  /\ pc' = "fetch"
  /\ net' = "inflight"
  /\ timers' = Append(tm, "armed")
  /\ fetchLog' = Append(fetchLog, url)
  /\ \E b \in (IF IsDef(upstream[url.feed]) THEN {Val(upstream[url.feed])}
               ELSE IF phase = "single" THEN Snapshots(t, url.feed)
               ELSE SessionSnapshots(url.feed)) :
       upstream' = [upstream EXCEPT ![url.feed] = Some(b)]

\* the tool function settles
Settle(o, tm) ==
  /\ pc' = "done"
  /\ net' = "none"
  /\ timers' = tm
  /\ out' = o
  /\ UNCHANGED <<fetchLog, upstream>>

RailUrl(count, stationName) == Url("rail", 0, count, encodeURIComponent(stationName))
BusArrivalUrl(arsId) == Url("busArr", 0, 0, arsId)

stopLoopCondition_OnePageMore(p) == p <= StopMaxPages + 1
\* page <= 5
stopLoopCondition(p) == p <= StopMaxPages
\* page <= 3
bikeLoopCondition(p) == p <= BikeMaxPages

\* startIdx and endIdx of page p
pageUrl(feed, p) == Url(feed, (p - 1) * pageSize + 1, p * pageSize, "")

\* whether the body is no object, or carries an error code in its header
ErrorCoded(feed, data) ==
  \/ data.isNull
  \/ /\ feed = "rail"
     /\ IsDef(data.errorMessage)
     /\ IsDef(Val(data.errorMessage).code)
     /\ Val(Val(data.errorMessage).code) \notin {"INFO-000", "INFO-200"}
  \/ /\ feed = "busArr"
     /\ ~(IsDef(data.msgHeader) /\ Val(data.msgHeader).headerCd = Some("0"))
  \/ /\ feed \in {"stops", "bikes"}
     /\ IsDef(data.RESULT)
     /\ Val(data.RESULT).CODE \notin {Some("INFO-000"), Some("INFO-200")}

\* the array the tool reads the body's records from
ListOf(feed, data) ==
  CASE feed = "rail"   -> IF IsDef(data.realtimeArrivalList) THEN Val(data.realtimeArrivalList) ELSE <<>>
    [] feed = "busArr" -> IF IsDef(data.itemList) THEN Val(data.itemList) ELSE <<>>
    [] OTHER           -> RowsOf(data)

\* what is wrong with a parsed body
PayloadFailure(feed, data) ==
  IF ErrorCoded(feed, data) THEN {<<feed, "payload">>}
  ELSE IF HasNull(ListOf(feed, data)) THEN {<<feed, "record">>}
  ELSE {}

CatchOf_Partial(t, msg) ==
  IF t = SEARCH_BUS_STATION /\ results # <<>>
  THEN SearchBusStationRender(query, limit, format, results)
  ELSE CASE t = SUBWAY_ARRIVAL     -> SubwayArrivalCatch(msg)
         [] t = BUS_ARRIVAL        -> BusArrivalCatch(msg)
         [] t = SEARCH_BUS_STATION -> SearchBusStationCatch(msg)
         [] t = BIKE_STATION       -> BikeStationCatch(msg)

\* the catch block of the single-source tool t
CatchOf(t, msg) ==
  CASE t = SUBWAY_ARRIVAL     -> SubwayArrivalCatch(msg)
    [] t = BUS_ARRIVAL        -> BusArrivalCatch(msg)
    [] t = SEARCH_BUS_STATION -> SearchBusStationCatch(msg)
    [] t = BIKE_STATION       -> BikeStationCatch(msg)

CombinedAfter_SkipOnFailure(feed, sd, bs, bk, tm) ==
  /\ subwayData' = sd
  /\ busStations' = bs
  /\ bikeStations' = bk
  /\ IF feed = "rail" /\ sd # <<>>
     THEN StartFetch(COMBINED_INFO, Url("stops", 1, CombinedStopEnd, ""), tm) /\ out' = out
     ELSE IF feed = "stops"
     THEN StartFetch(COMBINED_INFO, Url("bikes", 1, CombinedBikeEnd, ""), tm) /\ out' = out
     ELSE Settle(CombinedRender(args.location, format, sd, bs, bk), tm)

\* transitGetCombinedInfo after the try block of feed: the next lookup starts,
\* or, after the third, the result is rendered
CombinedAfter(feed, sd, bs, bk, tm) ==
  /\ subwayData' = sd
  /\ busStations' = bs
  /\ bikeStations' = bk
  /\ IF feed = "rail"
     THEN StartFetch(COMBINED_INFO, Url("stops", 1, CombinedStopEnd, ""), tm) /\ out' = out
     ELSE IF feed = "stops"
     THEN StartFetch(COMBINED_INFO, Url("bikes", 1, CombinedBikeEnd, ""), tm) /\ out' = out
     ELSE Settle(CombinedRender(args.location, format, sd, bs, bk), tm)

\* an error thrown by an await inside a try block reaches the catch block
ThrowInto(msg, kind, tm) ==
  /\ failed' = failed \cup {<<CurUrl.feed, kind>>}
  /\ IF tool = COMBINED_INFO
     THEN CombinedAfter(CurUrl.feed, subwayData, busStations, bikeStations, tm)
     ELSE /\ Settle(CatchOf(tool, msg), tm)
          /\ UNCHANGED <<subwayData, busStations, bikeStations>>
  /\ UNCHANGED <<tool, args, query, limit, format, page, results>>

\* the response headers arrive: fetchWithTimeout returns the response through its
\* finally block, and the tool awaits response.json()
FetchResolves ==
  /\ pc = "fetch"
  /\ net = "inflight"
  /\ CurAnswer.mode \in {"ok", "badjson", "stall"}
  /\ pc' = "json"
  /\ net' = "none"
  /\ timers' = ClearTimer(timers)
  /\ UNCHANGED <<tool, args, query, limit, format, page, results, subwayData, busStations,
                 bikeStations, upstream, fetchLog, failed, out>>
  /\ UNCHANGED <<phase, reference>>

\* the connection fails: fetch rejects, the finally block runs, the error is thrown
FetchRejects ==
  /\ pc = "fetch"
  /\ net = "inflight"
  /\ CurAnswer.mode = "neterr"
  /\ ThrowInto(TransportMessage, "transport", ClearTimer(timers))
  /\ UNCHANGED <<phase, reference>>

\* the budget expires with the request in flight: the timer's callback aborts it
TimerFires ==
  /\ pc = "fetch"
  /\ net = "inflight"
  /\ CurAnswer.mode = "hang"
  /\ timers[Len(timers)] = "armed"
  /\ timers' = [timers EXCEPT ![Len(timers)] = "fired"]
  /\ net' = "aborted"
  /\ UNCHANGED <<pc, tool, args, query, limit, format, page, results, subwayData, busStations,
                 bikeStations, upstream, fetchLog, failed, out>>
  /\ UNCHANGED <<phase, reference>>

\* the aborted fetch rejects: the finally block runs, the AbortError is thrown
FetchAborts ==
  /\ pc = "fetch"
  /\ net = "aborted"
  /\ ThrowInto(AbortMessage, "timeout", ClearTimer(timers))
  /\ UNCHANGED <<phase, reference>>

\* response.json() rejects: the body is not JSON
JsonRejects ==
  /\ pc = "json"
  /\ CurAnswer.mode = "badjson"
  /\ ThrowInto(SyntaxMessage, "payload", timers)
  /\ UNCHANGED <<phase, reference>>

\* ------------------------------------------------------------ the tools

CallSubwayArrival ==
  /\ pc = "idle"
  /\ \E a \in {x \in SubwayArrivalArgs : Admitted(SUBWAY_ARRIVAL, x)} :
       LET stationName == normalizeStation(a.station_name)
           lim == effectiveLimit(a.limit)
       IN  /\ tool' = SUBWAY_ARRIVAL
           /\ args' = a
           /\ query' = stationName
           /\ limit' = lim
           /\ format' = effectiveFormat(a.response_format)
           /\ StartFetch(SUBWAY_ARRIVAL, RailUrl(lim, stationName), timers)
  /\ UNCHANGED <<page, results, subwayData, busStations, bikeStations, failed, out>>
  /\ UNCHANGED <<phase, reference>>

SubwayArrivalResumes ==
  /\ pc = "json"
  /\ tool = SUBWAY_ARRIVAL
  /\ CurAnswer.mode = "ok"
  /\ LET data == CurAnswer.data
         r == SubwayArrivalTry(query, format, data)
     IN  /\ Settle(IF r.caught THEN SubwayArrivalCatch(r.msg) ELSE r.out, timers)
         /\ failed' = failed \cup PayloadFailure("rail", data)
  /\ UNCHANGED <<tool, args, query, limit, format, page, results, subwayData, busStations,
                 bikeStations>>
  /\ UNCHANGED <<phase, reference>>

CallSubwayStatus ==
  /\ pc = "idle"
  /\ \E a \in {x \in SubwayStatusArgs : Admitted(SUBWAY_STATUS, x)} :
       /\ tool' = SUBWAY_STATUS
       /\ args' = a
       /\ format' = effectiveFormat(a.response_format)
       /\ Settle(SubwayStatusBody(a.line, effectiveFormat(a.response_format)), timers)
  /\ UNCHANGED <<query, limit, page, results, subwayData, busStations, bikeStations, failed>>
  /\ UNCHANGED <<phase, reference>>

CallBusArrival ==
  /\ pc = "idle"
  /\ \E a \in {x \in BusArrivalArgs : Admitted(BUS_ARRIVAL, x)} :
       /\ tool' = BUS_ARRIVAL
       /\ args' = a
       /\ query' = a.ars_id
       /\ limit' = effectiveLimit(a.limit)
       /\ format' = effectiveFormat(a.response_format)
       /\ StartFetch(BUS_ARRIVAL, BusArrivalUrl(a.ars_id), timers)
  /\ UNCHANGED <<page, results, subwayData, busStations, bikeStations, failed, out>>
  /\ UNCHANGED <<phase, reference>>

BusArrivalResumes ==
  /\ pc = "json"
  /\ tool = BUS_ARRIVAL
  /\ CurAnswer.mode = "ok"
  /\ LET data == CurAnswer.data
         r == BusArrivalTry(query, limit, format, data)
     IN  /\ Settle(IF r.caught THEN BusArrivalCatch(r.msg) ELSE r.out, timers)
         /\ failed' = failed \cup PayloadFailure("busArr", data)
  /\ UNCHANGED <<tool, args, query, limit, format, page, results, subwayData, busStations,
                 bikeStations>>
  /\ UNCHANGED <<phase, reference>>

InitialResults_Shared == busStations

\* const results: BusStation[] = []
InitialResults == <<>>

\* const results: BikeStation[] = []
InitialBikeResults == <<>>

CallSearchBusStation ==
  /\ pc = "idle"
  /\ \E a \in {x \in SearchBusStationArgs : Admitted(SEARCH_BUS_STATION, x)} :
       /\ tool' = SEARCH_BUS_STATION
       /\ args' = a
       /\ query' = trim(a.query)
       /\ limit' = effectiveLimit(a.limit)
       /\ format' = effectiveFormat(a.response_format)
  /\ page' = 1
  /\ results' = InitialResults
  /\ StartFetch(SEARCH_BUS_STATION, pageUrl("stops", 1), timers)
  /\ UNCHANGED <<subwayData, busStations, bikeStations, failed, out>>
  /\ UNCHANGED <<phase, reference>>

\* one pass of the loop of transitSearchBusStation from the parsed body on, then
\* the next page's request or the statements after the loop
SearchBusStationResumes ==
  /\ pc = "json"
  /\ tool = SEARCH_BUS_STATION
  /\ CurAnswer.mode = "ok"
  /\ LET data == CurAnswer.data
         r == SearchBusStationPage(query, data)
     IN  /\ failed' = failed \cup PayloadFailure("stops", data)
         /\ IF r.caught
            THEN /\ Settle(SearchBusStationCatch(r.msg), timers)
                 /\ UNCHANGED <<page, results>>
            ELSE LET all == results \o r.matched
                 IN  /\ results' = all
                     /\ IF scanBreaks(all, r.rows, limit)
                        THEN /\ page' = page
                             /\ Settle(SearchBusStationRender(query, limit, format, all), timers)
                        ELSE /\ page' = page + 1
                             /\ IF stopLoopCondition(page + 1)
                                THEN /\ StartFetch(SEARCH_BUS_STATION, pageUrl("stops", page + 1), timers)
                                     /\ out' = out
                                ELSE Settle(SearchBusStationRender(query, limit, format, all), timers)
  /\ UNCHANGED <<tool, args, query, limit, format, subwayData, busStations, bikeStations>>
  /\ UNCHANGED <<phase, reference>>

CallBikeStation ==
  /\ pc = "idle"
  /\ \E a \in {x \in BikeStationArgs : Admitted(BIKE_STATION, x)} :
       /\ tool' = BIKE_STATION
       /\ args' = a
       /\ query' = trim(a.query)
       /\ limit' = effectiveLimit(a.limit)
       /\ format' = effectiveFormat(a.response_format)
  /\ page' = 1
  /\ results' = InitialBikeResults
  /\ StartFetch(BIKE_STATION, pageUrl("bikes", 1), timers)
  /\ UNCHANGED <<subwayData, busStations, bikeStations, failed, out>>
  /\ UNCHANGED <<phase, reference>>

BikeStationResumes ==
  /\ pc = "json"
  /\ tool = BIKE_STATION
  /\ CurAnswer.mode = "ok"
  /\ LET data == CurAnswer.data
         r == BikeStationPage(query, data)
     IN  /\ failed' = failed \cup PayloadFailure("bikes", data)
         /\ IF r.caught
            THEN /\ Settle(BikeStationCatch(r.msg), timers)
                 /\ UNCHANGED <<page, results>>
            ELSE LET all == results \o r.matched
                 IN  /\ results' = all
                     /\ IF scanBreaks(all, r.rows, limit)
                        THEN /\ page' = page
                             /\ Settle(BikeStationRender(query, limit, format, all), timers)
                        ELSE /\ page' = page + 1
                             /\ IF bikeLoopCondition(page + 1)
                                THEN /\ StartFetch(BIKE_STATION, pageUrl("bikes", page + 1), timers)
                                     /\ out' = out
                                ELSE Settle(BikeStationRender(query, limit, format, all), timers)
  /\ UNCHANGED <<tool, args, query, limit, format, subwayData, busStations, bikeStations>>
  /\ UNCHANGED <<phase, reference>>

CallCombinedInfo ==
  /\ pc = "idle"
  /\ \E a \in {x \in CombinedInfoArgs : Admitted(COMBINED_INFO, x)} :
       /\ tool' = COMBINED_INFO
       /\ args' = a
       /\ query' = normalizeStation(a.location)
       /\ format' = effectiveFormat(a.response_format)
       /\ StartFetch(COMBINED_INFO, RailUrl(CombinedRailCount, normalizeStation(a.location)), timers)
  /\ subwayData' = <<>>
  /\ busStations' = <<>>
  /\ bikeStations' = <<>>
  /\ UNCHANGED <<limit, page, results, failed, out>>
  /\ UNCHANGED <<phase, reference>>

CombinedSubwayResumes ==
  /\ pc = "json"
  /\ tool = COMBINED_INFO
  /\ CurUrl.feed = "rail"
  /\ CurAnswer.mode = "ok"
  /\ LET data == CurAnswer.data
         r == CombinedSubwayTry(data)
     IN  /\ failed' = failed \cup PayloadFailure("rail", data)
         /\ CombinedAfter("rail", IF r.caught THEN subwayData ELSE subwayData \o r.pushed,
                          busStations, bikeStations, timers)
  /\ UNCHANGED <<tool, args, query, limit, format, page, results>>
  /\ UNCHANGED <<phase, reference>>

CombinedBusResumes ==
  /\ pc = "json"
  /\ tool = COMBINED_INFO
  /\ CurUrl.feed = "stops"
  /\ CurAnswer.mode = "ok"
  /\ LET data == CurAnswer.data
         r == CombinedBusTry(query, data)
     IN  /\ failed' = failed \cup PayloadFailure("stops", data)
         /\ CombinedAfter("stops", subwayData,
                          IF r.caught THEN busStations ELSE busStations \o r.pushed,
                          bikeStations, timers)
  /\ UNCHANGED <<tool, args, query, limit, format, page, results>>
  /\ UNCHANGED <<phase, reference>>

CombinedBikeResumes ==
  /\ pc = "json"
  /\ tool = COMBINED_INFO
  /\ CurUrl.feed = "bikes"
  /\ CurAnswer.mode = "ok"
  /\ LET data == CurAnswer.data
         r == CombinedBikeTry(query, data)
     IN  /\ failed' = failed \cup PayloadFailure("bikes", data)
         /\ CombinedAfter("bikes", subwayData, busStations,
                          IF r.caught THEN bikeStations ELSE bikeStations \o r.pushed, timers)
  /\ UNCHANGED <<tool, args, query, limit, format, page, results>>
  /\ UNCHANGED <<phase, reference>>

\* executeTool: the switch on the tool's name
executeTool ==
  \/ CallSubwayArrival
  \/ CallSubwayStatus
  \/ CallBusArrival
  \/ CallSearchBusStation
  \/ CallBikeStation
  \/ CallCombinedInfo

Next ==
  \/ executeTool
  \/ FetchResolves
  \/ FetchRejects
  \/ TimerFires
  \/ FetchAborts
  \/ JsonRejects
  \/ SubwayArrivalResumes
  \/ BusArrivalResumes
  \/ SearchBusStationResumes
  \/ BikeStationResumes
  \/ CombinedSubwayResumes
  \/ CombinedBusResumes
  \/ CombinedBikeResumes

Spec == Init /\ [][Next]_vars

\* the handler has sent the response of one request and receives the next: the
\* process keeps running, nothing of the finished request is handed over
NextRequest ==
  /\ pc = "done"
  /\ phase \in {"first", "between"}
  /\ phase' = IF phase = "first" THEN "between" ELSE "repeat"
  /\ reference' = IF phase = "first" THEN [tool |-> tool, args |-> args, out |-> out]
                  ELSE reference
  /\ pc' = "idle"
  /\ net' = "none"
  /\ timers' = <<>>
  /\ fetchLog' = <<>>
  /\ failed' = {}
  /\ out' = NoOut
  /\ UNCHANGED <<tool, args, query, limit, format, page, results, subwayData, busStations,
                 bikeStations, upstream>>

SessionNext ==
  \/ Next
  \/ NextRequest

SessionSpec == InitSession /\ [][SessionNext]_vars

\* ------------------------------------------------------------ properties

SingleSourceTools == {SUBWAY_ARRIVAL, BUS_ARRIVAL, SEARCH_BUS_STATION, BIKE_STATION}
LimitTools == {SUBWAY_ARRIVAL, BUS_ARRIVAL, SEARCH_BUS_STATION, BIKE_STATION}

\* the kinds of failure recorded for a feed in this call
FailureKinds(feed) == {f[2] : f \in {g \in failed : g[1] = feed}}

\* C1: a finished combined query has returned a rendered response (it never
\* throws), and the section of every source whose lookup failed by timeout,
\* transport error or malformed payload is empty (count 0).
C1_CombinedIsolatesFailure ==
  (tool = COMBINED_INFO /\ pc = "done") =>
    /\ out.kind = "return"
    /\ FailureKinds("rail") # {} => out.res.subway.count = 0
    /\ FailureKinds("stops") # {} => out.res.bus.count = 0
    /\ FailureKinds("bikes") # {} => out.res.bike.count = 0

\* C2: a single-source tool whose upstream lookup failed by timeout, transport
\* error or an error-coded or malformed payload returns normally with the
\* textual failure explanation.
C2_FailureExplained ==
  (tool \in SingleSourceTools /\ pc = "done"
     /\ \E f \in failed : f[2] \in {"timeout", "transport", "payload"}) =>
    /\ out.kind = "return"
    /\ out.form = "failure"

\* C3: when a tool that takes a limit returns a result for a requested limit
\* of at least 1 (or for no limit, which stands for 10), the number of records
\* in the result and the count it reports are at most min(requested limit, 20).
C3_CountWithinLimit ==
  (tool \in LimitTools /\ pc = "done" /\ out.form \in {"json", "markdown", "empty"}
     /\ (IsDef(args.limit) => Val(args.limit) >= 1)) =>
    LET requested == IF IsDef(args.limit) THEN Val(args.limit) ELSE 10
        most == IF requested < 20 THEN requested ELSE 20
    IN  /\ Len(out.res.items) <= most
        /\ out.res.count <= most

\* C4: in every tool that accepts a limit, the effective limit after argument
\* processing lies in 1..20 whatever value was requested.
C4_LimitInRange ==
  (tool \in LimitTools /\ pc # "idle") => limit \in 1..20

\* C5: stop search issues at most 5 page fetches and bike-station search at most
\* 3; the p-th fetch of a scan requests the index range (p-1)*1000+1 .. p*1000
\* of the scan's own directory, and no page is requested twice.
C5_ScanBound ==
  (tool \in {SEARCH_BUS_STATION, BIKE_STATION}) =>
    /\ Len(fetchLog) <= (IF tool = SEARCH_BUS_STATION THEN 5 ELSE 3)
    /\ \A p \in 1..Len(fetchLog) :
         /\ fetchLog[p].feed = (IF tool = SEARCH_BUS_STATION THEN "stops" ELSE "bikes")
         /\ fetchLog[p].startIdx = (p - 1) * 1000 + 1
         /\ fetchLog[p].endIdx = p * 1000
    /\ \A p, r \in 1..Len(fetchLog) : p # r => fetchLog[p] # fetchLog[r]

\* C5 witness: a stop search has ended after its fifth page fetch although the
\* directory holds records beyond the fifth page.
C5_Witness ==
  /\ tool = SEARCH_BUS_STATION
  /\ pc = "done"
  /\ Len(fetchLog) = 5
  /\ IsDef(upstream["stops"])
  /\ DirCount(Val(upstream["stops"]).ds) > 5000

\* C6: the matches a stop search returns are ordered so that names starting with
\* the query precede the others, names with the same prefix flag are in
\* ascending length, and records equal on both keys keep their scan order; for
\* query "gn" over the candidates "gny", "gnkc", "gn" the order is "gn", "gny",
\* "gnkc".
C6_RankingOrder ==
  (tool = SEARCH_BUS_STATION /\ pc = "done" /\ out.form \in {"json", "markdown"}) =>
    LET items == out.res.items
        name(s) == IF IsDef(s.STOPS_NM) THEN Val(s.STOPS_NM) ELSE ""
        pre(s) == Len(name(s)) >= Len(query) /\ SubSeq(name(s), 1, Len(query)) = query
        sameKey(s, t) == pre(s) = pre(t) /\ Len(name(s)) = Len(name(t))
        names == [i \in 1..Len(items) |-> name(items[i])]
    IN  /\ \A i, j \in 1..Len(items) :
             i < j =>
               /\ pre(items[j]) => pre(items[i])
               /\ pre(items[i]) = pre(items[j]) => Len(name(items[i])) <= Len(name(items[j]))
        /\ \A i \in 1..Len(items) :
             LET class(t) == sameKey(t, items[i])
                 kept == SelectSeq(items, class)
                 scanned == SelectSeq(results, class)
             IN  /\ Len(kept) <= Len(scanned)
                 /\ kept = SubSeq(scanned, 1, Len(kept))
        /\ (query = "gn" /\ Val(upstream["stops"]).ds = "small" /\ Len(items) >= 3) =>
             SubSeq(names, 1, 3) = <<"gn", "gny", "gnkc">>

\* C6 witness: the stop search for "gn" has returned the candidates scanned in
\* the order "gny", "gnkc", "gn", "LT gn" as "gn", "gny", "gnkc" followed by
\* the name that only contains the query.
C6_Witness ==
  /\ tool = SEARCH_BUS_STATION
  /\ pc = "done"
  /\ out.form \in {"json", "markdown"}
  /\ query = "gn"
  /\ Len(results) = 4
  /\ [i \in 1..4 |-> Val(results[i].STOPS_NM)] = <<"gny", "gnkc", "gn", "LT gn">>
  /\ [i \in 1..Len(out.res.items) |-> Val(out.res.items[i].STOPS_NM)]
       = <<"gn", "gny", "gnkc", "LT gn">>

\* C7: a text body of at most 25000 characters is returned as composed; a longer
\* one is returned as its first 24900 characters followed by the truncation
\* notice, which names the limit as "25,000".
C7_Truncation ==
  (pc = "done" /\ out.form = "markdown") =>
    LET notice == "\n\n... (odo 25,000j jhor jrsnd)"
    IN  IF Len(out.raw) <= 25000
        THEN out.body = out.raw
        ELSE /\ out.body = SubSeq(out.raw, 1, 24900) \o notice
             /\ Len(out.body) = 24900 + Len(notice)
             /\ SubSeq(notice, 12, 17) = "25,000"

\* C7 witness: a text body of more than 25000 characters has been rendered.
C7_Witness ==
  /\ pc = "done"
  /\ out.form = "markdown"
  /\ Len(out.raw) > 25000

\* C8: whatever the outcome, a body returned in text form has at most 25000
\* characters.
C8_TextWithinLimit ==
  (pc = "done" /\ out.kind = "return" /\ format # "json") => Len(out.body) <= 25000

\* C9: a result returned in the structured form is the complete serialization,
\* whatever its length.
C9_JsonNeverTruncated ==
  (pc = "done" /\ out.form = "json") =>
    /\ out.body = out.raw
    /\ SubSeq(out.body, Len(out.body), Len(out.body)) = "}"

\* C9 witness: a structured result of more than 25000 characters has been
\* returned.
C9_Witness ==
  /\ pc = "done"
  /\ out.form = "json"
  /\ Len(out.raw) > 25000

\* C10: normalizing the station name a rail arrival or combined query uses a
\* second time changes nothing, and the upstream URL carries the normalized
\* name.
C10_NormalizeIdempotent ==
  (tool \in {SUBWAY_ARRIVAL, COMBINED_INFO} /\ pc # "idle") =>
    /\ normalizeStation(query) = query
    /\ fetchLog[1].key = encodeURIComponent(query)

\* C12: while a tool awaits an upstream that never finishes delivering (its
\* headers or its body), the cancellation timer of that call is still pending or
\* has fired, so that the budget ends the call as a timeout failure.
C12_BudgetBoundsDelivery ==
  (pc \in {"fetch", "json"} /\ CurAnswer.mode \in {"hang", "stall"}) =>
    timers[Len(timers)] \in {"armed", "fired"}

\* C16: there is one timer per gateway call; the timer of every call that has
\* returned (with a response, a transport error or an abort) is cleared, and a
\* timer is in the fired state only for the call still in flight.
C16_TimerReleased ==
  /\ Len(timers) = Len(fetchLog)
  /\ \A i \in 1..Len(timers) :
       /\ (i < Len(timers) \/ pc \in {"idle", "json", "done"}) => timers[i] = "cleared"
       /\ timers[i] = "fired" => (i = Len(timers) /\ pc = "fetch" /\ net = "aborted")

\* C16 witness: a scan has ended by the abort of its third gateway call, after
\* two calls that returned responses, and all three timers are cleared.
C16_Witness ==
  /\ pc = "done"
  /\ \E f \in failed : f[2] = "timeout"
  /\ Len(timers) = 3
  /\ \A i \in 1..3 : timers[i] = "cleared"

ScanTools == {SEARCH_BUS_STATION, BIKE_STATION}

\* C13: when a scan has processed page p, it fetches no further page if the
\* matches accumulated so far are at least 3 times the effective limit or page p
\* held fewer than 1000 records; otherwise it fetches page p + 1, unless p is the
\* page bound (5 for stops, 3 for bikes).
C13_EarlyExit ==
  [][(tool \in ScanTools /\ pc = "json" /\ pc' # "json" /\ out'.form # "failure") =>
       LET rows == RowsOf(CurAnswer.data)
           stop == Len(results') >= 3 * limit \/ Len(rows) < 1000
           bound == IF tool = SEARCH_BUS_STATION THEN 5 ELSE 3
           p == Len(fetchLog)
       IN  /\ stop => (pc' = "done" /\ fetchLog' = fetchLog)
           /\ (~stop /\ p < bound) =>
                /\ pc' = "fetch"
                /\ Len(fetchLog') = p + 1
                /\ fetchLog'[p + 1].feed = fetchLog[p].feed
                /\ fetchLog'[p + 1].startIdx = p * 1000 + 1
                /\ fetchLog'[p + 1].endIdx = (p + 1) * 1000
           /\ (~stop /\ p = bound) => (pc' = "done" /\ fetchLog' = fetchLog)]_vars

\* C13 witness: a stop search with a positive limit has ended on the match count
\* after a full page that is neither the first nor the fifth, with records of
\* the directory left unread.
C13_Witness ==
  /\ tool = SEARCH_BUS_STATION
  /\ pc = "done"
  /\ out.form \in {"json", "markdown"}
  /\ limit >= 1
  /\ Len(results) >= 3 * limit
  /\ Len(fetchLog) \in 2..4
  /\ DirCount(Val(upstream["stops"]).ds) > Len(fetchLog) * 1000

\* C17: when the fetch of page p of a scan times out or fails in transport, or
\* its body is not JSON, page p is the last request of the scan, and the scan
\* returns the failure explanation alone: the fixed text of the tool followed by
\* the error's message, without any record of the pages before p.
C17_NoRetryNoPartial ==
  LET feed == IF tool = SEARCH_BUS_STATION THEN "stops" ELSE "bikes" IN
  (/\ tool \in ScanTools
   /\ IsDef(upstream[feed])
   /\ Val(upstream[feed]).failMode \in {"hang", "neterr", "badjson"}
   /\ Len(fetchLog) >= Val(upstream[feed]).failPage) =>
    LET b == Val(upstream[feed])
        message == CASE b.failMode = "hang"   -> "This operation was aborted"
                     [] b.failMode = "neterr" -> "fetch failed"
                     [] OTHER                 -> "Unexpected token < in JSON at position 0"
        prefix == IF tool = SEARCH_BUS_STATION THEN "! jrj gs sp: " ELSE "! dro dos gs sp: "
    IN  /\ Len(fetchLog) = b.failPage
        /\ \A i \in 1..Len(fetchLog) : fetchLog[i].startIdx = (i - 1) * 1000 + 1
        /\ pc = "done" =>
             /\ out.kind = "return"
             /\ out.form = "failure"
             /\ out.body = prefix \o message
             /\ out.res = <<>>

\* C17 witness: a stop search that had accumulated matches from two pages has
\* ended with the failure explanation when its third page failed.
C17_Witness ==
  /\ tool = SEARCH_BUS_STATION
  /\ pc = "done"
  /\ Val(upstream["stops"]).failPage = 3
  /\ Val(upstream["stops"]).failMode \in {"hang", "neterr", "badjson"}
  /\ Len(results) >= 2
  /\ Len(fetchLog) = 3
  /\ out.form = "failure"

\* the records of the pages a finished scan has read, in the order read
ScannedRows(feed) ==
  ConcatAll([i \in 1..Len(fetchLog) |-> RowsOf(DirFeed(Val(upstream[feed]), fetchLog[i]).data)])

\* the match predicate as specified: the name contains the query compared
\* without regard to case, or (stops) the identifier equals the query
SpecifiedMatch(feed, s, q) ==
  IF feed = "stops"
  THEN \/ IsDef(s.STOPS_NM) /\ includes(toLowerCase(Val(s.STOPS_NM)), toLowerCase(q))
       \/ s.STOPS_NO = Some(q)
  ELSE IsDef(s.stationName) /\ includes(toLowerCase(Val(s.stationName)), toLowerCase(q))

\* C14: a scan that ends without a failure has accumulated exactly the records
\* of the pages it read whose name contains the query compared without regard
\* to case or (stop search) whose identifier equals the query; a record without
\* a name is accumulated only through its identifier.
C14_MatchPredicate ==
  (tool \in ScanTools /\ pc = "done" /\ out.form # "failure") =>
    LET feed == IF tool = SEARCH_BUS_STATION THEN "stops" ELSE "bikes"
    IN  results = SelectSeq(ScannedRows(feed), LAMBDA s : SpecifiedMatch(feed, s, query))

\* what lookup i of a combined query leaves in its buffer when it is taken alone
LookupAlone(i) ==
  LET url == fetchLog[i]
      b == Val(upstream[url.feed])
      a == IF url.feed = "rail" THEN RailFeed(b) ELSE DirFeed(b, url)
      r == CASE url.feed = "rail"  -> CombinedSubwayTry(a.data)
             [] url.feed = "stops" -> CombinedBusTry(query, a.data)
             [] OTHER              -> CombinedBikeTry(query, a.data)
  IN  IF a.mode # "ok" \/ r.caught THEN <<>> ELSE r.pushed

\* C15: in the combined query the three lookups are issued, each once, in the
\* order rail, stops, bikes; nothing is rendered before the third has settled,
\* and then every earlier timer is released; whatever happened to its siblings,
\* each buffer holds what its own lookup yields, and a step taken for one lookup
\* changes no buffer but that lookup's own.
C15_AllSettleBeforeRender ==
  /\ [](tool = COMBINED_INFO =>
         /\ Len(fetchLog) \in 1..3
         /\ \A i \in 1..Len(fetchLog) : fetchLog[i].feed = <<"rail", "stops", "bikes">>[i]
         /\ (out # NoOut \/ pc = "done") =>
              /\ pc = "done"
              /\ Len(fetchLog) = 3
              /\ \A i \in 1..3 : timers[i] = "cleared"
              /\ subwayData = LookupAlone(1)
              /\ busStations = LookupAlone(2)
              /\ bikeStations = LookupAlone(3)
         /\ Len(fetchLog) < 3 => bikeStations = <<>>
         /\ Len(fetchLog) < 2 => busStations = <<>>)
  /\ [][(tool = COMBINED_INFO /\ pc # "idle") =>
         /\ CurUrl.feed # "rail" => subwayData' = subwayData
         /\ CurUrl.feed # "stops" => busStations' = busStations
         /\ CurUrl.feed # "bikes" => bikeStations' = bikeStations]_vars

\* C15 witness: a combined query has rendered after its rail lookup timed out
\* and its stop lookup failed in transport, with the bike buffer filled.
C15_Witness ==
  /\ tool = COMBINED_INFO
  /\ pc = "done"
  /\ <<"rail", "timeout">> \in failed
  /\ <<"stops", "transport">> \in failed
  /\ Len(fetchLog) = 3
  /\ bikeStations # <<>>
  /\ out.kind = "return"

\* C11: in a process that answers several requests over an unchanged upstream, a
\* request with the tool and arguments of the first request is answered with
\* the first request's response (same outcome, format and text), whichever
\* request was answered in between.
C11_SameRequestSameResponse ==
  (/\ phase \in {"between", "repeat"}
   /\ pc = "done"
   /\ tool = reference.tool
   /\ args = reference.args) => out = reference.out

\* C11 witness: a stop search has been answered a second time with its records,
\* after a combined query that filled its own stop buffer was answered in
\* between.
C11_Witness ==
  /\ phase = "repeat"
  /\ pc = "done"
  /\ tool = SEARCH_BUS_STATION
  /\ busStations # <<>>
  /\ out.form = "json"
  /\ out.res.count > 1
  /\ out = reference.out

====
